---- MODULE Spec2Model ----
\* ComfyUIService.generate_video (app/services/comfyui.py): load the workflow
\* template, patch it, POST it to /api/queue, poll /api/history/{prompt_id},
\* extract the first output, create output_dir, GET /api/view, write the file.
\* Each call is a process; the server and the filesystem are the environment.
EXTENDS Integers, Sequences, FiniteSets, TLC

\* ---------------------------------------------------------------- bounds
Procs == {1, 2}
\* the maximum wait of the specification's bounded poll, counted in polls
MaxWaitPolls == 1
\* counters of network calls saturate here
CallCap == MaxWaitPolls + 1

\* ---------------------------------------------------------------- strings and paths
\* A path string is its leading-slash flag and its components; "" is EmptyStr.
EmptyStr == [abs |-> FALSE, parts |-> <<>>]
DirOut == [abs |-> FALSE, parts |-> <<"out">>]
DirOutV == [abs |-> FALSE, parts |-> <<"out", "v">>]
NameA == [abs |-> FALSE, parts |-> <<"a.mp4">>]
NameB == [abs |-> FALSE, parts |-> <<"b.mp4">>]
NameAbs == [abs |-> TRUE, parts |-> <<"x.mp4">>]

\* truth value of a str in `if output_dir:`
Truthy(s) == s # EmptyStr

\* os.path.join(a, b): an absolute b discards a
Join(a, b) == IF b.abs THEN b ELSE [abs |-> a.abs, parts |-> a.parts \o b.parts]

\* the directory open() needs for path
Dirname(path) == [abs |-> path.abs, parts |-> SubSeq(path.parts, 1, Len(path.parts) - 1)]

\* d and every ancestor of d, as os.makedirs creates them
Ancestors(d) == {[abs |-> d.abs, parts |-> SubSeq(d.parts, 1, n)] : n \in 1..Len(d.parts)}

\* os.path.exists(d) for a directory path; "" never exists, the root and the
\* working directory always do
Exists(d, ds) == d # EmptyStr /\ (d.parts = <<>> \/ d \in ds)

\* the directory of a file to open exists (a bare file name lives in the cwd)
ParentExists(path, ds) == Dirname(path).parts = <<>> \/ Dirname(path) \in ds

\* ---------------------------------------------------------------- inputs
OutputDirs == {EmptyStr, DirOut, DirOutV}
InitialDirs == {{}, {DirOut}, {DirOut, DirOutV}}
Resolutions == {<<1080, 1920>>, <<1920, 1080>>}
Frames == {24}
Prompts == {"a cat"}
Bytes == {<<>>, <<7, 10>>}
PromptIdOf(p) == IF p = 1 THEN "job1" ELSE "job2"

\* a node's inputs before the patch: text fields hold text, the others numbers
Node(keys) == [k \in keys |-> IF k \in {"text", "clip"} THEN "old" ELSE 0]
FullTemplate ==
    [n \in {"1", "2", "3"} |->
        [inputs |-> IF n = "1" THEN Node({"text"})
                    ELSE IF n = "2" THEN Node({"width", "height"})
                    ELSE Node({"frames"})]]
\* the templates default_animation.json may hold
Templates ==
    { FullTemplate,
      [FullTemplate EXCEPT !["1"] = [inputs |-> Node({"clip"})]],
      [n \in {"1", "3"} |-> FullTemplate[n]],
      [FullTemplate EXCEPT !["3"] = [class_type |-> "x"]],
      [FullTemplate EXCEPT !["2"] = [class_type |-> "x"]] }

\* what open()/json.load produce for the template file
LoadOutcomes ==
    {[kind |-> "FileNotFoundError"], [kind |-> "JSONDecodeError"]}
        \cup {[kind |-> "ok", doc |-> t] : t \in Templates}

\* what requests.post(...) and response.json() meet
QueueOutcomes(p) ==
    {[kind |-> "ConnectionError"]}
        \cup {[kind |-> "response", status |-> s, json |-> FALSE] : s \in {200, 500}}
        \cup {[kind |-> "response", status |-> s, json |-> TRUE, body |-> b] :
                s \in {200, 500},
                b \in {[prompt_id |-> PromptIdOf(p)], [error |-> "invalid prompt"]}}

Entries == {[filename |-> f, subfolder |-> "clips"] : f \in {NameA, NameAbs}}
                \cup {[filename |-> NameA]}
ImageLists ==
    {<<>>} \cup {<<e>> : e \in Entries}
           \cup {<<e1, e2>> : e1 \in {[filename |-> NameA, subfolder |-> "clips"]},
                              e2 \in {[filename |-> NameB, subfolder |-> "clips"]}}
OutputsDocs ==
    {<<>>, [n \in {"9"} |-> [images |-> <<>>]], [n \in {"4"} |-> [text |-> "t"]]}
        \cup {[n \in {"4"} |-> [images |-> l]] : l \in ImageLists}
HistoryEntries == {[status |-> "running"]} \cup {[outputs |-> o] : o \in OutputsDocs}
HistoryOutcomes(p) ==
    {[kind |-> "ConnectionError"], [kind |-> "response", json |-> FALSE]}
        \cup {[kind |-> "response", json |-> TRUE, body |-> <<>>]}
        \cup {[kind |-> "response", json |-> TRUE, body |-> [k \in {"other"} |-> e]] :
                e \in {[status |-> "running"]}}
        \cup {[kind |-> "response", json |-> TRUE, body |-> [k \in {PromptIdOf(p)} |-> e]] :
                e \in HistoryEntries}

ViewOutcomes ==
    {[kind |-> "ConnectionError"]}
        \cup {[kind |-> "response", status |-> s, content |-> c] : s \in {200, 404}, c \in Bytes}

\* ---------------------------------------------------------------- state
VARIABLES
    host,       \* self.host
    api_base,   \* self.api_base
    dirs,       \* directories on disk
    files,      \* path -> content of the files written
    args,       \* p -> the arguments of the call
    pc,         \* p -> position in generate_video
    workflow,   \* p -> the loaded (and patched) template
    prompt_id,  \* p -> queue_response["prompt_id"]
    outputs,    \* p -> history[prompt_id]["outputs"]
    video,      \* p -> video_filename, video_subfolder
    video_data, \* p -> the bytes _get_image returned
    exc,        \* p -> the exception raised, and the step that raised it
    result,     \* p -> what the call returned
    obs         \* p -> what the call has read, requested and changed so far

vars == <<host, api_base, dirs, files, args, pc, workflow, prompt_id, outputs, video,
          video_data, exc, result, obs>>

NoExc == [class |-> "none", step |-> "none"]
Pending == [kind |-> "pending"]
None == [kind |-> "None"]
Raised == [kind |-> "raised"]
PathResult(path) == [kind |-> "path", path |-> path]
NoVideo == [filename |-> EmptyStr, subfolder |-> ""]
\* template: the document loaded; queue, history, view: the requests made to
\* each endpoint; posted: the body posted; status: the status of the queue
\* response (0: none); reported: the last history response held prompt_id;
\* viewReq, served: the parameters of the view request and the bytes it
\* returned; exists: what os.path.exists answered; made, wrote: the directories
\* created and the files written
NoObs == [template |-> <<>>, queue |-> 0, history |-> 0, view |-> 0,
          posted |-> <<>>, status |-> 0, reported |-> FALSE, viewReq |-> <<>>,
          served |-> <<>>, exists |-> "unchecked", made |-> {}, wrote |-> {}]

Inc(n) == IF n < CallCap THEN n + 1 ELSE n

\* ---------------------------------------------------------------- pure steps
\* workflow[node]["inputs"] can be subscripted
HasInputs(w, node) == node \in DOMAIN w /\ "inputs" \in DOMAIN w[node]

\* workflow[node]["inputs"][key] = val: item assignment adds a key that is absent
SetInput(w, node, key, val) ==
    [w EXCEPT ![node] =
        [@ EXCEPT !["inputs"] =
            [k \in DOMAIN @ \cup {key} |-> IF k = key THEN val ELSE @[k]]]]

\* the four assignments of lines 74-77, in order
PatchSteps(a) ==
    << <<"1", "text", a.prompt>>, <<"2", "width", a.res[1]>>,
       <<"2", "height", a.res[2]>>, <<"3", "frames", a.frames>> >>

\* run the assignments from the i-th on; the first KeyError stops them and
\* leaves the earlier ones done
RECURSIVE ApplyPatch(_, _, _)
ApplyPatch(w, steps, i) ==
    IF i > Len(steps) THEN [ok |-> TRUE, doc |-> w]
    ELSE IF HasInputs(w, steps[i][1])
         THEN ApplyPatch(SetInput(w, steps[i][1], steps[i][2], steps[i][3]), steps, i + 1)
         ELSE [ok |-> FALSE, doc |-> w]

\* a slip: images[-1], the last artifact listed
LastImage(images) == images[Len(images)]

\* images[0]
FirstImage(images) == images[1]

\* a slip: .get() with defaults, so that a missing output still yields names
ExtractVideoLenient(o) ==
    [class |-> "none", video |-> [filename |-> NameA, subfolder |-> ""]]

\* lines 93-94: the exception the two subscript chains raise, or the names
ExtractVideo(o) ==
    IF "4" \notin DOMAIN o THEN [class |-> "KeyError", video |-> NoVideo]
    ELSE IF "images" \notin DOMAIN o["4"] THEN [class |-> "KeyError", video |-> NoVideo]
    ELSE IF Len(o["4"]["images"]) = 0 THEN [class |-> "IndexError", video |-> NoVideo]
    ELSE IF "filename" \notin DOMAIN FirstImage(o["4"]["images"])
         THEN [class |-> "KeyError", video |-> NoVideo]
    ELSE IF "subfolder" \notin DOMAIN FirstImage(o["4"]["images"])
         THEN [class |-> "KeyError", video |-> NoVideo]
    ELSE [class |-> "none",
          video |-> [filename |-> FirstImage(o["4"]["images"]).filename,
                     subfolder |-> FirstImage(o["4"]["images"]).subfolder]]

\* a slip: the test of output_dir left out
AlwaysSaves(output_dir) == TRUE

\* `if output_dir:`
SavesOutput(output_dir) == Truthy(output_dir)

\* a slip: the directory is taken to exist
NeverMakedirs(output_dir, ds) == FALSE

\* `if not os.path.exists(output_dir):`
NeedsMakedirs(output_dir, ds) == ~Exists(output_dir, ds)

\* a slip: `except requests.RequestException`
CatchesRequestErrors(class) == class = "ConnectionError"

\* the classes under Exception, which `except Exception` catches
ExceptionClasses ==
    {"FileNotFoundError", "FileExistsError", "PermissionError", "JSONDecodeError",
     "KeyError", "IndexError", "ConnectionError"}
Catches(class) == class \in ExceptionClasses

\* a slip: a failed submission is sent again
RetryQueue(step) == IF step = "queue" THEN "queue" ELSE "except"

\* where control goes when a statement of the try block raises
RaiseTarget(step) == "except"

\* ---------------------------------------------------------------- the call
Args == [prompt : Prompts, res : Resolutions, frames : Frames, output_dir : OutputDirs]
DefaultArgs == [prompt |-> "a cat", res |-> <<1080, 1920>>, frames |-> 24,
                output_dir |-> EmptyStr]

\* __init__ has run; the calls in `active` have been entered
InitWith(active) ==
    /\ host = "http://127.0.0.1:8188"
    /\ api_base = <<"http://127.0.0.1:8188", "/api">>
    /\ dirs \in InitialDirs
    /\ files = <<>>
    /\ args \in [Procs -> Args]
    /\ \A p \in Procs \ active : args[p] = DefaultArgs
    /\ pc = [p \in Procs |-> IF p \in active THEN "load" ELSE "idle"]
    /\ workflow = [p \in Procs |-> <<>>]
    /\ prompt_id = [p \in Procs |-> ""]
    /\ outputs = [p \in Procs |-> <<>>]
    /\ video = [p \in Procs |-> NoVideo]
    /\ video_data = [p \in Procs |-> <<>>]
    /\ exc = [p \in Procs |-> NoExc]
    /\ result = [p \in Procs |-> Pending]
    /\ obs = [p \in Procs |-> NoObs]

\* one call, alone on the filesystem
Init == InitWith({1})

\* a statement of the try block raises class at step
Raise(p, class, step) ==
    /\ exc' = [exc EXCEPT ![p] = [class |-> class, step |-> step]]
    /\ pc' = [pc EXCEPT ![p] = RaiseTarget(step)]

Goto(p, label) == pc' = [pc EXCEPT ![p] = label]

\* line 67: self._get_workflow_json(workflow_path)
Load(p) ==
    /\ pc[p] = "load"
    /\ \E o \in LoadOutcomes :
        IF o.kind = "ok"
        THEN /\ workflow' = [workflow EXCEPT ![p] = o.doc]
             /\ obs' = [obs EXCEPT ![p].template = o.doc]
             /\ Goto(p, "patch")
             /\ UNCHANGED exc
        ELSE /\ Raise(p, o.kind, "load")
             /\ UNCHANGED <<workflow, obs>>
    /\ UNCHANGED <<host, api_base, dirs, files, args, prompt_id, outputs, video,
                   video_data, result>>

\* lines 70-77: the resolution and the four assignments
Patch(p) ==
    /\ pc[p] = "patch"
    /\ LET r == ApplyPatch(workflow[p], PatchSteps(args[p]), 1) IN
        /\ workflow' = [workflow EXCEPT ![p] = r.doc]
        /\ IF r.ok
           THEN Goto(p, "queue") /\ UNCHANGED exc
           ELSE Raise(p, "KeyError", "patch")
    /\ UNCHANGED <<host, api_base, dirs, files, args, prompt_id, outputs, video,
                   video_data, result, obs>>

\* lines 80-81: self._queue_prompt(workflow) and queue_response["prompt_id"]
Queue(p) ==
    /\ pc[p] = "queue"
    /\ \E o \in QueueOutcomes(p) :
        /\ obs' = [obs EXCEPT ![p].queue = Inc(@), ![p].posted = workflow[p],
                              ![p].status = IF o.kind = "response" THEN o.status ELSE 0]
        /\ IF o.kind # "response"
           THEN Raise(p, o.kind, "queue") /\ UNCHANGED prompt_id
           ELSE IF ~o.json
           THEN Raise(p, "JSONDecodeError", "queue") /\ UNCHANGED prompt_id
           ELSE IF "prompt_id" \notin DOMAIN o.body
           THEN Raise(p, "KeyError", "queue") /\ UNCHANGED prompt_id
           ELSE /\ prompt_id' = [prompt_id EXCEPT ![p] = o.body.prompt_id]
                /\ Goto(p, "poll")
                /\ UNCHANGED exc
    /\ UNCHANGED <<host, api_base, dirs, files, args, workflow, outputs, video,
                   video_data, result>>

\* lines 84-88: one turn of the while True loop
Poll(p) ==
    /\ pc[p] = "poll"
    /\ \E o \in HistoryOutcomes(p) :
        /\ obs' = [obs EXCEPT ![p].history = Inc(@),
                              ![p].reported = /\ o.kind = "response"
                                              /\ o.json
                                              /\ prompt_id[p] \in DOMAIN o.body]
        /\ IF o.kind # "response"
           THEN Raise(p, o.kind, "poll") /\ UNCHANGED outputs
           ELSE IF ~o.json
           THEN Raise(p, "JSONDecodeError", "poll") /\ UNCHANGED outputs
           ELSE IF prompt_id[p] \notin DOMAIN o.body
           THEN UNCHANGED <<pc, exc, outputs>>
           ELSE IF "outputs" \notin DOMAIN o.body[prompt_id[p]]
           THEN Raise(p, "KeyError", "poll") /\ UNCHANGED outputs
           ELSE /\ outputs' = [outputs EXCEPT ![p] = o.body[prompt_id[p]].outputs]
                /\ Goto(p, "extract")
                /\ UNCHANGED exc
    /\ UNCHANGED <<host, api_base, dirs, files, args, workflow, prompt_id, video,
                   video_data, result>>

\* lines 93-94
Extract(p) ==
    /\ pc[p] = "extract"
    /\ LET r == ExtractVideo(outputs[p]) IN
        IF r.class = "none"
        THEN /\ video' = [video EXCEPT ![p] = r.video]
             /\ Goto(p, "check_dir")
             /\ UNCHANGED exc
        ELSE /\ Raise(p, r.class, "extract")
             /\ UNCHANGED video
    /\ UNCHANGED <<host, api_base, dirs, files, args, workflow, prompt_id, outputs,
                   video_data, result, obs>>

\* lines 97-98: the two tests; without an output_dir the function falls off its
\* end and returns None
CheckDir(p) ==
    /\ pc[p] = "check_dir"
    /\ IF SavesOutput(args[p].output_dir)
       THEN /\ Goto(p, IF NeedsMakedirs(args[p].output_dir, dirs)
                       THEN "makedirs" ELSE "get_image")
            /\ obs' = [obs EXCEPT ![p].exists =
                            IF Exists(args[p].output_dir, dirs) THEN "yes" ELSE "no"]
            /\ UNCHANGED result
       ELSE /\ Goto(p, "done")
            /\ result' = [result EXCEPT ![p] = None]
            /\ UNCHANGED obs
    /\ UNCHANGED <<host, api_base, dirs, files, args, workflow, prompt_id, outputs,
                   video, video_data, exc>>

\* line 99: os.makedirs(output_dir)
Makedirs(p) ==
    /\ pc[p] = "makedirs"
    /\ \E permitted \in BOOLEAN :
        IF ~permitted
        THEN Raise(p, "PermissionError", "makedirs") /\ UNCHANGED <<dirs, obs>>
        ELSE IF args[p].output_dir = EmptyStr
        THEN Raise(p, "FileNotFoundError", "makedirs") /\ UNCHANGED <<dirs, obs>>
        ELSE IF Exists(args[p].output_dir, dirs)
        THEN Raise(p, "FileExistsError", "makedirs") /\ UNCHANGED <<dirs, obs>>
        ELSE /\ dirs' = dirs \cup Ancestors(args[p].output_dir)
             /\ obs' = [obs EXCEPT ![p].made = Ancestors(args[p].output_dir) \ dirs]
             /\ Goto(p, "get_image")
             /\ UNCHANGED exc
    /\ UNCHANGED <<host, api_base, files, args, workflow, prompt_id, outputs, video,
                   video_data, result>>

\* line 101: self._get_image(video_filename, video_subfolder, "output")
GetImage(p) ==
    /\ pc[p] = "get_image"
    /\ \E o \in ViewOutcomes :
        /\ obs' = [obs EXCEPT ![p].view = Inc(@),
                              ![p].viewReq = [filename |-> video[p].filename,
                                              subfolder |-> video[p].subfolder,
                                              type |-> "output"],
                              ![p].served = IF o.kind = "response" THEN o.content
                                            ELSE <<>>]
        /\ IF o.kind # "response"
           THEN Raise(p, o.kind, "get_image") /\ UNCHANGED video_data
           ELSE /\ video_data' = [video_data EXCEPT ![p] = o.content]
                /\ Goto(p, "write")
                /\ UNCHANGED exc
    /\ UNCHANGED <<host, api_base, dirs, files, args, workflow, prompt_id, outputs,
                   video, result>>

\* lines 102-107: open(output_path, "wb"), f.write(video_data), return output_path
Write(p) ==
    /\ pc[p] = "write"
    /\ LET output_path == Join(args[p].output_dir, video[p].filename) IN
       \E permitted \in BOOLEAN :
        IF ~permitted
        THEN Raise(p, "PermissionError", "write") /\ UNCHANGED <<files, result, obs>>
        ELSE IF ~ParentExists(output_path, dirs)
        THEN Raise(p, "FileNotFoundError", "write") /\ UNCHANGED <<files, result, obs>>
        ELSE /\ files' = [f \in DOMAIN files \cup {output_path} |->
                            IF f = output_path THEN video_data[p] ELSE files[f]]
             /\ obs' = [obs EXCEPT ![p].wrote = {output_path}]
             /\ result' = [result EXCEPT ![p] = PathResult(output_path)]
             /\ Goto(p, "done")
             /\ UNCHANGED exc
    /\ UNCHANGED <<host, api_base, dirs, args, workflow, prompt_id, outputs, video,
                   video_data>>

\* lines 109-111: the handler logs and returns None; an exception it does not
\* catch leaves the call
Except(p) ==
    /\ pc[p] = "except"
    /\ result' = [result EXCEPT ![p] = IF Catches(exc[p].class) THEN None ELSE Raised]
    /\ Goto(p, "done")
    /\ UNCHANGED <<host, api_base, dirs, files, args, workflow, prompt_id, outputs,
                   video, video_data, exc, obs>>

Next ==
    \E p \in Procs :
        \/ Load(p)
        \/ Patch(p)
        \/ Queue(p)
        \/ Poll(p)
        \/ Extract(p)
        \/ CheckDir(p)
        \/ Makedirs(p)
        \/ GetImage(p)
        \/ Write(p)
        \/ Except(p)

Spec == Init /\ [][Next]_vars

\* two calls at once, on clients of one server, saving into one directory
InitConc ==
    /\ InitWith(Procs)
    /\ \A p \in Procs : args[p].res = <<1080, 1920>> /\ args[p].output_dir = DirOut
    /\ dirs \in {{}, {DirOut}}

SpecConc == InitConc /\ [][Next]_vars

\* ---------------------------------------------------------------- properties
\* the first image of outputs["4"]["images"] is there, with both of its names
Extractable(o) ==
    /\ "4" \in DOMAIN o
    /\ "images" \in DOMAIN o["4"]
    /\ Len(o["4"]["images"]) >= 1
    /\ {"filename", "subfolder"} \subseteq DOMAIN o["4"]["images"][1]

\* a well-formed output: extractable, and the file name is a plain relative name
WellFormed(o) == Extractable(o) /\ ~o["4"]["images"][1].filename.abs

\* output_dir/filename
Under(dir, name) == [abs |-> dir.abs, parts |-> dir.parts \o name.parts]

\* a failure of the server or the disk, not of the call
EnvFault(class) == class \in {"ConnectionError", "PermissionError"}

\* the template does not hold every key path the patch writes
LacksPatchedPath(w) ==
    \E i \in 1..4 :
        LET st == PatchSteps(DefaultArgs)[i] IN
        \/ ~HasInputs(w, st[1])
        \/ st[2] \notin DOMAIN w[st[1]].inputs

\* C1: while no history response has held the prompt_id, the call polls no
\* more than the maximum wait allows: past it the call has left the loop.
C1_PollingBounded ==
    \A p \in Procs : pc[p] = "poll" => obs[p].history <= MaxWaitPolls

\* C2: no exception leaves generate_video, and a call in which any step raised
\* returns None.
C2_FailuresReturnNone ==
    \A p \in Procs :
        /\ result[p] # Raised
        /\ (pc[p] = "done" /\ exc[p] # NoExc) => result[p] = None

C2_Witness ==
    \E p \in Procs : pc[p] = "done" /\ exc[p].step = "write" /\ result[p] = None

\* C3: a call whose loaded template lacks one of the patched key paths makes
\* no request at all and fails in the patch.
C3_MismatchFailsBeforeSubmit ==
    \A p \in Procs :
        (/\ pc[p] \notin {"idle", "load"}
         /\ exc[p].step # "load"
         /\ LacksPatchedPath(obs[p].template))
        => /\ obs[p].queue = 0 /\ obs[p].history = 0 /\ obs[p].view = 0
           /\ pc[p] # "patch" => exc[p] = [class |-> "KeyError", step |-> "patch"]
           /\ pc[p] = "done" => result[p] = None

\* C4: a call whose submission failed (the POST raised, the response was not a
\* success, or it held no prompt_id) fails in the submission and makes no
\* history request, no view request and writes no file.
C4_FailedSubmissionStops ==
    \A p \in Procs :
        (/\ obs[p].queue > 0
         /\ exc[p].step = "queue" \/ obs[p].status \notin {0, 200})
        => /\ exc[p].step = "queue"
           /\ obs[p].history = 0 /\ obs[p].view = 0 /\ obs[p].wrote = {}
           /\ pc[p] = "done" => result[p] = None

\* C5: a finished call with an output_dir, whose job completed with a
\* well-formed output and met no failure of the server or the disk, made one
\* view request, for the first image listed and type "output", wrote the bytes
\* served to output_dir/filename and returned that path.
C5_FirstArtifactSaved ==
    \A p \in Procs :
        (/\ pc[p] = "done"
         /\ WellFormed(outputs[p])
         /\ Truthy(args[p].output_dir)
         /\ ~EnvFault(exc[p].class))
        => LET first == outputs[p]["4"]["images"][1]
               path == Under(args[p].output_dir, first.filename)
           IN /\ obs[p].queue = 1 /\ obs[p].history >= 1 /\ obs[p].view = 1
              /\ obs[p].viewReq = [filename |-> first.filename,
                                   subfolder |-> first.subfolder, type |-> "output"]
              /\ path \in DOMAIN files
              /\ files[path] = obs[p].served
              /\ obs[p].wrote = {path}
              /\ result[p] = PathResult(path)

C5_Witness ==
    \E p \in Procs :
        /\ pc[p] = "done" /\ result[p].kind = "path"
        /\ obs[p].history >= 2
        /\ WellFormed(outputs[p]) /\ Len(outputs[p]["4"]["images"]) = 2
        /\ obs[p].served # <<>>

\* C6 as stated: each endpoint is requested at most once in a call.
C6_EachCallOnce ==
    \A p \in Procs : obs[p].queue <= 1 /\ obs[p].history <= 1 /\ obs[p].view <= 1

\* C6: the queue and the view endpoints are requested at most once in a call,
\* no request follows one that failed, and the history endpoint is requested
\* again only while no response has held the prompt_id.
C6_NoRetry ==
    [][\A p \in Procs :
        /\ obs'[p].queue <= 1 /\ obs'[p].view <= 1
        /\ exc[p] # NoExc => obs'[p] = obs[p]
        /\ obs'[p].history # obs[p].history => pc[p] = "poll" /\ ~obs[p].reported]_vars

C6_Witness ==
    \E p \in Procs :
        /\ pc[p] = "done" /\ result[p].kind = "path"
        /\ obs[p].queue = 1 /\ obs[p].history = 2 /\ obs[p].view = 1

\* C7: when os.path.exists found no output_dir, the directory is there from
\* the view request on, the call made it before it wrote, and a call whose job
\* completed with a well-formed output and met no failure of the server or the
\* disk returned output_dir/filename, the file being there.
C7_DirectoryMadeBeforeWrite ==
    \A p \in Procs :
        obs[p].exists = "no"
        => /\ pc[p] \in {"get_image", "write"} => Exists(args[p].output_dir, dirs)
           /\ obs[p].wrote # {} => args[p].output_dir \in obs[p].made
           /\ (pc[p] = "done" /\ WellFormed(outputs[p]) /\ ~EnvFault(exc[p].class))
              => LET path == Under(args[p].output_dir, video[p].filename)
                 IN /\ args[p].output_dir \in obs[p].made
                    /\ args[p].output_dir \in dirs
                    /\ path \in DOMAIN files
                    /\ result[p] = PathResult(path)

C7_Witness ==
    \E p \in Procs :
        /\ pc[p] = "done" /\ obs[p].exists = "no"
        /\ args[p].output_dir = DirOutV
        /\ obs[p].made = {DirOut, DirOutV}
        /\ result[p] = PathResult(Under(DirOutV, NameA))

\* C8: a call without output_dir makes no view request, creates no directory,
\* writes no file and returns no path; when its job completed with an
\* extractable output it has loaded, patched and posted the template, polled,
\* taken the first image's names, met no failure and returned None.
C8_NoOutputDirNothingSaved ==
    \A p \in Procs :
        (pc[p] # "idle" /\ args[p].output_dir = EmptyStr)
        => /\ obs[p].view = 0 /\ obs[p].made = {} /\ obs[p].wrote = {}
           /\ result[p].kind # "path"
           /\ (pc[p] = "done" /\ Extractable(outputs[p]))
              => /\ exc[p] = NoExc
                 /\ result[p] = None
                 /\ obs[p].queue = 1 /\ obs[p].history >= 1
                 /\ ~LacksPatchedPath(workflow[p])
                 /\ obs[p].posted = workflow[p]
                 /\ video[p].filename = outputs[p]["4"]["images"][1].filename
                 /\ video[p].subfolder = outputs[p]["4"]["images"][1].subfolder

C8_Witness ==
    \E p \in Procs :
        /\ pc[p] = "done" /\ args[p].output_dir = EmptyStr
        /\ Extractable(outputs[p])
        /\ result[p] = None /\ exc[p] = NoExc

\* C9: the call is past the poll loop only after a history response that held
\* the prompt_id (with its outputs); when those outputs lack node "4", its
\* images, or a first image, the call fails in the extraction, with no view
\* request, no test or creation of the directory and no file written.
C9_MissingOutputFailsBeforeFetch ==
    \A p \in Procs :
        /\ pc[p] \in {"extract", "check_dir", "makedirs", "get_image", "write"}
            => obs[p].reported /\ prompt_id[p] = PromptIdOf(p)
        /\ (/\ obs[p].reported /\ exc[p].step # "poll" /\ pc[p] # "extract"
            /\ ~(/\ "4" \in DOMAIN outputs[p]
                 /\ "images" \in DOMAIN outputs[p]["4"]
                 /\ Len(outputs[p]["4"]["images"]) >= 1))
           => /\ exc[p].step = "extract"
              /\ exc[p].class \in {"KeyError", "IndexError"}
              /\ obs[p].view = 0 /\ obs[p].exists = "unchecked"
              /\ obs[p].made = {} /\ obs[p].wrote = {}
              /\ pc[p] = "done" => result[p] = None

C9_Witness ==
    \E p \in Procs :
        /\ pc[p] = "done" /\ obs[p].reported
        /\ exc[p] = [class |-> "IndexError", step |-> "extract"]
        /\ result[p] = None

\* C10: the client's host and api_base keep their values, and of two calls at
\* once each one whose job completed with a well-formed output, and which met
\* no failure of the server or the disk, returned output_dir/filename.
C10_ConcurrentCallsIndependent ==
    /\ host = "http://127.0.0.1:8188"
    /\ api_base = <<"http://127.0.0.1:8188", "/api">>
    /\ \A p \in Procs :
        (/\ pc[p] = "done"
         /\ WellFormed(outputs[p])
         /\ Truthy(args[p].output_dir)
         /\ ~EnvFault(exc[p].class))
        => result[p] = PathResult(Under(args[p].output_dir, video[p].filename))
====
